---- MODULE Spec2Model ----
(***************************************************************************)
(* Anonymous tokens with public metadata (crate atpmd): the pairing engine *)
(* (BLS12-381), the NIZKP engine over Ristretto255 and their batched       *)
(* forms.                                                                  *)
(*                                                                         *)
(* Algebra.  Scalars are the integers modulo the prime Q.  A point of the  *)
(* group that carries the tokens (G1 of BLS12-381, the Ristretto group) is *)
(* the vector of its coordinates over the generator and over the outputs   *)
(* of the hash-to-curve oracle, one coordinate for each (tag, metadata):   *)
(* the discrete logarithms of the oracle's outputs are unknown, so the     *)
(* code can only form their linear combinations.  A point of G2 is g2*x    *)
(* and is kept as x; e(P, g2*x) is the vector x*P.                         *)
(* Random draws (keys, blinding scalars, nonces, weights, seeds) are       *)
(* nondeterministic choices.                                               *)
(***************************************************************************)
EXTENDS Integers, Sequences, FiniteSets, TLC

\* ------------------------------------------------------------------ bounds
QIdx == 2
MaxDraw == 2
MaxTag == 2

Primes == <<3, 5, 7, 11, 13>>
\* order of the scalar field
Q == Primes[QIdx]

Min(a, b) == IF a < b THEN a ELSE b

Scalars == 0 .. (Q - 1)
\* values a random scalar draw can produce in the model
Draws == 0 .. Min(MaxDraw, Q - 1)
\* 16-byte tags
TagSpace == 0 .. MaxTag
\* byte strings used as public and as hidden metadata
Metadata == {<<1>>, <<2>>, <<1, 2>>}

RECURSIVE SumSeq(_)
SumSeq(s) == IF s = <<>> THEN 0 ELSE Head(s) + SumSeq(Tail(s))

RECURSIVE Pow(_, _)
Pow(x, n) == IF n = 0 THEN 1 ELSE (x * Pow(x, n - 1)) % Q

\* ----------------------------------------------------------------- scalars
SAdd(a, b) == (a + b) % Q
SSub(a, b) == (a + Q - (b % Q)) % Q
SMul(a, b) == (a * b) % Q
\* x^(Q-2): the inverse of a nonzero scalar, 0 for 0
InvOrZero(x) == Pow(x % Q, Q - 2)
\* bls12_381 Scalar::invert: CtOption, empty exactly for 0
CtInvert(x) == [is_some |-> (x % Q) # 0, value |-> InvOrZero(x)]
\* curve25519_dalek Scalar::invert: a plain scalar
DalekInvert(x) == InvOrZero(x)

\* ------------------------------------------------------------------ points
GenIdx == <<-1, <<>>>>
Basis == {GenIdx} \cup (TagSpace \X Metadata)

PIdentity == [b \in Basis |-> 0]
PGenerator == [b \in Basis |-> IF b = GenIdx THEN 1 ELSE 0]
PAdd(p, q) == [b \in Basis |-> (p[b] + q[b]) % Q]
PMul(p, s) == [b \in Basis |-> (p[b] * s) % Q]
PNeg(p) == [b \in Basis |-> (Q - p[b]) % Q]

RECURSIVE CoordSumOver(_, _)
CoordSumOver(p, S) == IF S = {} THEN 0 ELSE LET b == CHOOSE x \in S : TRUE IN p[b] + CoordSumOver(p, S \ {b})

RECURSIVE PSum(_)
PSum(ps) == IF ps = <<>> THEN PIdentity ELSE PAdd(Head(ps), PSum(Tail(ps)))

\* G2 and the pairing
G2Generator == 1
G2Add(x, y) == (x + y) % Q
G2Mul(x, s) == (x * s) % Q
Pairing(p, x) == PMul(p, x)

\* ----------------------------------------------------------- random oracles
\* SHA-512("Domain of hidden metadata" || h || t), first 16 bytes
HiddenDigest(h, t) == (t + SumSeq(h)) % (MaxTag + 1)

\* the 16-byte tag a token identifier is consumed as
IdTag(id) == IF id.kind = "Id" THEN id.t ELSE HiddenDigest(id.h, id.t)

\* hash of the metadata to a scalar, pairing engine
h_m(md) == (Q - (SumSeq(md) % Q)) % Q
\* hash of the metadata to a scalar, NIZKP engine
hash_to_scalar(md) == (Q - (SumSeq(md) % Q)) % Q
\* hash of (tag, metadata) to G1, pairing engine
h_1(t, md) == [b \in Basis |-> IF b = <<t, md>> THEN 1 ELSE 0]
\* hash of (tag, metadata) to the Ristretto group
h_t(t, md) == [b \in Basis |-> IF b = <<t, md>> THEN 1 ELSE 0]

\* ----------------------------------------------------- token identifiers
TokenIdentifierNew(t) == [kind |-> "Id", t |-> t, h |-> <<>>]
TokenIdentifierWithHidden(t, hidden) == [kind |-> "WithHidden", t |-> t, h |-> hidden]
TokenIdentifiers == {TokenIdentifierNew(t) : t \in TagSpace} \cup {TokenIdentifierWithHidden(t, h) : t \in TagSpace, h \in Metadata}

\* the tag as the array of bytes PartialEq walks over (three binary digits
\* stand for the sixteen bytes)
TagBytes(t) == <<(t \div 4) % 2, (t \div 2) % 2, t % 2>>

\* an equality derived from the variants and their fields
TokenIdentifierEq_Derived(a, b) == a = b

\* impl PartialEq for TokenIdentifier: both sides are consumed into their tag
\* and the bytes are folded with l ^ r == 0 && s
TokenIdentifierEq(a, b) ==
  LET lhs == TagBytes(IdTag(a))
      rhs == TagBytes(IdTag(b))
      fold[i \in 0 .. Len(lhs)] ==
        IF i = 0 THEN TRUE ELSE ((lhs[i] + rhs[i]) % 2 = 0) /\ fold[i - 1]
  IN  fold[Len(lhs)]

UnsignedNew(id, md) == [id |-> id, metadata |-> md]

\* ------------------------------------------------------------------- keys
PairingPublicKey(sk) == G2Mul(G2Generator, sk)
NizkpPublicKey(sk) == PMul(PGenerator, sk)

\* a verifier that leaves the public key out of u
PairingSignedVerify_NoKey(tok, pk) ==
  Pairing(tok.signature, G2Mul(G2Generator, h_m(tok.metadata))) = Pairing(h_1(IdTag(tok.id), tok.metadata), G2Generator)

\* --------------------------------------------------- pairing, single token
PairingSignedVerify(tok, pk) ==
  LET t == IdTag(tok.id)
      t_point == h_1(t, tok.metadata)
      u == G2Add(G2Mul(G2Generator, h_m(tok.metadata)), pk)
  IN Pairing(tok.signature, u) = Pairing(t_point, G2Generator)

\* impl PartialEq for PairingSignedToken: the metadata bytes are zipped, so
\* the fold runs over the length of the shorter one
PairingSignedTokenEq(a, b) ==
  LET same_id == TokenIdentifierEq(a.id, b.id)
      same_signature == a.signature = b.signature
      n == Min(Len(a.metadata), Len(b.metadata))
      fold[i \in 0 .. n] ==
        IF i = 0 THEN TRUE ELSE (a.metadata[i] = b.metadata[i]) /\ fold[i - 1]
  IN  same_signature /\ same_id /\ fold[n]

\* a randomize that blinds with r in place of its inverse
PairingRandomize_NoInverse(ut, r) ==
  [metadata |-> ut.metadata, point |-> PMul(h_1(IdTag(ut.id), ut.metadata), r)]

\* a randomize that sends the token's point as it is
PairingRandomize_Unblinded(ut, r) ==
  [metadata |-> ut.metadata, point |-> h_1(IdTag(ut.id), ut.metadata)]

\* r is the scalar the sampling loop ends with
PairingRandomize(ut, r) ==
  LET t == h_1(IdTag(ut.id), ut.metadata)
      rinv == CtInvert(r).value
  IN [metadata |-> ut.metadata, point |-> PMul(t, rinv)]

\* a signer that multiplies by d + sk in place of its inverse
PairingSignRandomized_NoInverse(t_prime, sign_key) ==
  [is_some |-> CtInvert(SAdd(h_m(t_prime.metadata), sign_key)).is_some,
   value |-> [metadata |-> t_prime.metadata, point |-> PMul(t_prime.point, SAdd(h_m(t_prime.metadata), sign_key))]]

PairingSignRandomized(t_prime, sign_key) ==
  LET d == h_m(t_prime.metadata)
      inv == CtInvert(SAdd(d, sign_key))
  IN [is_some |-> inv.is_some,
      value |-> [metadata |-> t_prime.metadata, point |-> PMul(t_prime.point, inv.value)]]

\* a client that unrandomizes without the pairing check
PairingVerifyAndUnrandomize_NoCheck(ut, rut, st, pk, randomization) ==
  [some |-> TRUE, token |-> [id |-> ut.id, metadata |-> ut.metadata, signature |-> PMul(st.point, randomization)]]

\* a client that copies the metadata of the signer's response into the token
PairingVerifyAndUnrandomize_ResponseMetadata(ut, rut, st, pk, randomization) ==
  LET u_point == G2Add(G2Mul(G2Generator, h_m(ut.metadata)), pk)
      w == PMul(st.point, randomization)
  IN IF Pairing(w, u_point) = Pairing(h_1(IdTag(ut.id), ut.metadata), G2Generator)
       THEN [some |-> TRUE, token |-> [id |-> ut.id, metadata |-> st.metadata, signature |-> w]]
       ELSE [some |-> FALSE, token |-> [id |-> ut.id, metadata |-> ut.metadata, signature |-> PIdentity]]

PairingVerifyAndUnrandomize(ut, rut, st, pk, randomization) ==
  LET u_point == G2Add(G2Mul(G2Generator, h_m(ut.metadata)), pk)
      w == PMul(st.point, randomization)
      t == IdTag(ut.id)
  IN IF Pairing(w, u_point) = Pairing(h_1(t, ut.metadata), G2Generator)
       THEN [some |-> TRUE, token |-> [id |-> ut.id, metadata |-> ut.metadata, signature |-> w]]
       ELSE [some |-> FALSE, token |-> [id |-> ut.id, metadata |-> ut.metadata, signature |-> PIdentity]]

\* ------------------------------------------- NIZKP (Ristretto), single token
CoordSum(p) == CoordSumOver(p, Basis)

\* a transcript hash that leaves the public key out
DLEQHashData_NoU(u, t, w, a, b) ==
  [digest |-> <<PGenerator, t, w, a, b>>,
   val |-> (1 + 2 * CoordSum(t) + 3 * CoordSum(w) + 4 * CoordSum(a) + 5 * CoordSum(b)) % Q]

\* The transcript hash: SHA-512 over the domain tag and the six compressed
\* points, reduced to a scalar.  digest is the hashed string (SHA-512 taken
\* as collision free), val the scalar used in the arithmetic.
DLEQHashData(u, t, w, a, b) ==
  [digest |-> <<PGenerator, u, t, w, a, b>>,
   val |-> (1 + CoordSum(u) + 2 * CoordSum(t) + 3 * CoordSum(w) + 4 * CoordSum(a) + 5 * CoordSum(b)) % Q]

\* a prover that answers with z = r + k * c
DLEQCreate_PlusKC(t, w, k, r) ==
  LET c == DLEQHashData(PMul(PGenerator, k), t, w, PMul(PGenerator, r), PMul(w, r))
  IN [c |-> c, z |-> SAdd(r, SMul(k, c.val))]

\* r is the nonce Scalar::random returns
DLEQCreate(t, w, k, r) ==
  LET a == PMul(PGenerator, r)
      b == PMul(w, r)
      c == DLEQHashData(PMul(PGenerator, k), t, w, a, b)
      z == SSub(r, SMul(k, c.val))
  IN [c |-> c, z |-> z]

DLEQVerify(proof, t, w, public_key) ==
  LET a == PAdd(PMul(PGenerator, proof.z), PMul(public_key, proof.c.val))
      b == PAdd(PMul(w, proof.z), PMul(t, proof.c.val))
      c == DLEQHashData(public_key, t, w, a, b)
  IN c = proof.c

\* a verifier that accepts the signature for any metadata
NizkpSignedVerify_AnyMetadata(tok, verification_key) ==
  \E md \in Metadata :
    PMul(tok.point, SAdd(hash_to_scalar(md), verification_key)) = h_t(IdTag(tok.id), md)

NizkpSignedVerify(tok, verification_key) ==
  LET t == h_t(IdTag(tok.id), tok.metadata)
      e_inverse == SAdd(hash_to_scalar(tok.metadata), verification_key)
      signed == PMul(tok.point, e_inverse)
  IN signed = t

\* r is the scalar Scalar::random returns
NizkpRandomize(ut, r) ==
  LET inverse == DalekInvert(r)
  IN [metadata |-> ut.metadata, point |-> PMul(h_t(IdTag(ut.id), ut.metadata), inverse)]

NizkpVerifyAndUnrandomize(ut, rut, st, pk, randomization) ==
  LET u == PAdd(PMul(PGenerator, hash_to_scalar(ut.metadata)), pk)
  IN IF DLEQVerify(st.proof, rut.point, st.point, u)
       THEN [some |-> TRUE, token |-> [id |-> ut.id, metadata |-> ut.metadata, point |-> PMul(st.point, randomization)]]
       ELSE [some |-> FALSE, token |-> [id |-> ut.id, metadata |-> ut.metadata, point |-> PIdentity]]

\* nonce is the scalar DLEQProof::create draws
NizkpSignRandomized(t_prime, sign_key, nonce) ==
  LET d == hash_to_scalar(t_prime.metadata)
      e == DalekInvert(SAdd(d, sign_key))
      w == PMul(t_prime.point, e)
  IN [is_some |-> TRUE,
      value |-> [point |-> w, proof |-> DLEQCreate(t_prime.point, w, SAdd(d, sign_key), nonce)]]

\* ------------------------------------------------------ batched engines
\* batch size: the const generic N of the batched engines
BatchN == 3
Slots == 1 .. BatchN

\* StdRng::from_seed(seed): the i-th scalar drawn from the seeded generator
SeedStream(seed, i) == (seed + (i - 1) * (1 + (seed \div Q))) % Q

BatchedUnsignedNew(tags, md) == [ids |-> [i \in Slots |-> TokenIdentifierNew(tags[i])], metadata |-> md]

\* nums.is_none(): some drawn scalar has no inverse, randomize starts over
BatchedPairingRandomizeRetries(seed) == \E i \in Slots : ~CtInvert(SeedStream(seed, i)).is_some

BatchedPairingRandomize(ut, seed) ==
  [points |-> [i \in Slots |-> PMul(h_1(IdTag(ut.ids[i]), ut.metadata), CtInvert(SeedStream(seed, i)).value)],
   metadata |-> ut.metadata]

\* a signer that reports a value whether or not d + sk has an inverse
BatchedPairingSignRandomized_AlwaysSome(randomized_unsigned, sign_key) ==
  [is_some |-> TRUE,
   value |-> [points |-> [i \in Slots |-> PMul(randomized_unsigned.points[i],
                                               CtInvert(SAdd(h_m(randomized_unsigned.metadata), sign_key)).value)]]]

BatchedPairingSignRandomized(randomized_unsigned, sign_key) ==
  LET d == h_m(randomized_unsigned.metadata)
      inv == CtInvert(SAdd(d, sign_key))
  IN [is_some |-> inv.is_some,
      value |-> [points |-> [i \in Slots |-> PMul(randomized_unsigned.points[i], inv.value)]]]

\* a client that rederives the blinding scalars in the reverse order
BatchedPairingVerifyAndUnrandomize_Reversed(ut, rut, st, pk, randomization) ==
  LET signatures == [i \in Slots |-> PMul(st.points[i], SeedStream(randomization, BatchN + 1 - i))]
  IN IF Pairing(PSum(signatures), G2Add(G2Mul(G2Generator, h_m(ut.metadata)), pk))
          = Pairing(PSum([i \in Slots |-> h_1(IdTag(ut.ids[i]), ut.metadata)]), G2Generator)
       THEN [some |-> TRUE, token |-> [ids |-> ut.ids, metadata |-> ut.metadata, signatures |-> signatures]]
       ELSE [some |-> FALSE, token |-> [ids |-> ut.ids, metadata |-> ut.metadata, signatures |-> [i \in Slots |-> PIdentity]]]

BatchedPairingVerifyAndUnrandomize(ut, rut, st, pk, randomization) ==
  LET u_point == G2Add(G2Mul(G2Generator, h_m(ut.metadata)), pk)
      signatures == [i \in Slots |-> PMul(st.points[i], SeedStream(randomization, i))]
      w == PSum(signatures)
      t == PSum([i \in Slots |-> h_1(IdTag(ut.ids[i]), ut.metadata)])
  IN IF Pairing(w, u_point) = Pairing(t, G2Generator)
       THEN [some |-> TRUE, token |-> [ids |-> ut.ids, metadata |-> ut.metadata, signatures |-> signatures]]
       ELSE [some |-> FALSE, token |-> [ids |-> ut.ids, metadata |-> ut.metadata, signatures |-> [i \in Slots |-> PIdentity]]]

\* a batch verifier that sums the slots without the drawn weights
BatchedPairingSignedVerify_Unweighted(tok, pk, rho) ==
  Pairing(PSum(tok.signatures), G2Add(G2Mul(G2Generator, h_m(tok.metadata)), pk))
    = Pairing(PSum([i \in Slots |-> h_1(IdTag(tok.ids[i]), tok.metadata)]), G2Generator)

\* BatchedPairingSignedToken::verify; rho[i] is the i-th random_biased draw
BatchedPairingSignedVerify(tok, pk, rho) ==
  LET t == PSum([i \in Slots |-> PMul(h_1(IdTag(tok.ids[i]), tok.metadata), rho[i])])
      w == PSum([i \in Slots |-> PMul(tok.signatures[i], rho[i])])
      u == G2Add(G2Mul(G2Generator, h_m(tok.metadata)), pk)
  IN Pairing(w, u) = Pairing(t, G2Generator)

\* a baseline that checks the pairing equation slot by slot
verify_no_lin_comb_PerSlot(token, key) ==
  \A i \in Slots :
    Pairing(token.signatures[i], G2Add(G2Mul(G2Generator, h_m(token.metadata)), key))
      = Pairing(h_1(IdTag(token.ids[i]), token.metadata), G2Generator)

verify_no_lin_comb(token, key) ==
  LET t == PSum([i \in Slots |-> h_1(IdTag(token.ids[i]), token.metadata)])
      w == PSum([i \in Slots |-> token.signatures[i]])
      u == G2Add(G2Mul(G2Generator, h_m(token.metadata)), key)
  IN Pairing(w, u) = Pairing(t, G2Generator)

\* an iterator that pairs an identifier with the signature of the next slot
BatchedIteratorNext_Shifted(tokens, place) ==
  IF place < BatchN
    THEN [some |-> TRUE, place |-> place + 1,
          token |-> [id |-> tokens.ids[place + 1], metadata |-> tokens.metadata,
                     signature |-> tokens.signatures[((place + 1) % BatchN) + 1]]]
    ELSE [some |-> FALSE, place |-> place,
          token |-> [id |-> TokenIdentifierNew(0), metadata |-> <<>>, signature |-> PIdentity]]

\* BatchedPairingSignedTokenIterator::next at position place (0-based)
BatchedIteratorNext(tokens, place) ==
  IF place < BatchN
    THEN [some |-> TRUE, place |-> place + 1,
          token |-> [id |-> tokens.ids[place + 1], metadata |-> tokens.metadata, signature |-> tokens.signatures[place + 1]]]
    ELSE [some |-> FALSE, place |-> place,
          token |-> [id |-> TokenIdentifierNew(0), metadata |-> <<>>, signature |-> PIdentity]]

\* the i-th coefficient drawn from the generator seeded with
\* SHA-256(domain || g || pk || unsigned points || signed points)
BatchCoefficient(t_list, w_list, public_key, i) ==
  (i * (1 + CoordSum(public_key)) + CoordSum(PSum(t_list)) + 2 * CoordSum(PSum(w_list))) % Q

hash_random_linear_combination(t_list, w_list, public_key) ==
  [t |-> PSum([i \in Slots |-> PMul(t_list[i], BatchCoefficient(t_list, w_list, public_key, i))]),
   w |-> PSum([i \in Slots |-> PMul(w_list[i], BatchCoefficient(t_list, w_list, public_key, i))])]

DLEQProofBatchedCreate(t_list, w_list, k, nonce) ==
  LET mz == hash_random_linear_combination(t_list, w_list, PMul(PGenerator, k))
  IN DLEQCreate(mz.t, mz.w, k, nonce)

DLEQProofBatchedVerify(proof, unsignedvec, signedvec, public_key) ==
  LET mz == hash_random_linear_combination(unsignedvec, signedvec, public_key)
  IN DLEQVerify(proof, mz.t, mz.w, public_key)

NizkpSignedTokenBatchedVerify(tok, verification_key) ==
  LET tpoints == [i \in Slots |-> h_t(IdTag(tok.ids[i]), tok.metadata)]
      e_inverse == SAdd(hash_to_scalar(tok.metadata), verification_key)
  IN PMul(PSum(tok.points), e_inverse) = PSum(tpoints)

BatchedNizkpRandomize(ut, seed) ==
  [points |-> [i \in Slots |-> PMul(h_t(IdTag(ut.ids[i]), ut.metadata), DalekInvert(SeedStream(seed, i)))],
   metadata |-> ut.metadata]

BatchedNizkpVerifyAndUnrandomize(ut, rut, st, pk, randomization) ==
  LET u == PAdd(PMul(PGenerator, hash_to_scalar(ut.metadata)), pk)
  IN IF DLEQProofBatchedVerify(st.proof, rut.points, st.points, u)
       THEN [some |-> TRUE, token |-> [ids |-> ut.ids, metadata |-> ut.metadata,
                                       points |-> [i \in Slots |-> PMul(st.points[i], SeedStream(randomization, i))]]]
       ELSE [some |-> FALSE, token |-> [ids |-> ut.ids, metadata |-> ut.metadata, points |-> [i \in Slots |-> PIdentity]]]

BatchedNizkpSignRandomized(t_prime, sign_key, nonce) ==
  LET d == hash_to_scalar(t_prime.metadata)
      e == DalekInvert(SAdd(d, sign_key))
      w_prime_list == [i \in Slots |-> PMul(t_prime.points[i], e)]
  IN [is_some |-> TRUE,
      value |-> [points |-> w_prime_list,
                 proof |-> DLEQProofBatchedCreate(t_prime.points, w_prime_list, SAdd(d, sign_key), nonce)]]

\* =========================================================================
\* One session of one engine: the client generates and randomizes, the
\* signing oracle answers, the client checks and unrandomizes
\* (TokenEngine::sign), and a verifier runs verify on the token it is shown,
\* which is the issued one or one an attacker assembled.
\* =========================================================================
VARIABLES engine, sk, pc, unsigned, rnd, rut, signKey, rst, signed, origin, verKey, verdicts, iter, baseline

vars == <<engine, sk, pc, unsigned, rnd, rut, signKey, rst, signed, origin, verKey, verdicts, iter, baseline>>

\* "k256" is the secp256k1 NIZKP engine of atpm_nizkp
Engines == {"pairing", "nizkp", "batched_pairing", "batched_nizkp", "k256"}
IsBatched(e) == e \in {"batched_pairing", "batched_nizkp"}
IsPairing(e) == e \in {"pairing", "batched_pairing"}

\* seeds a batched randomize can draw
MaxSeed == 3
Seeds == 0 .. MaxSeed

NoUnsigned == [id |-> TokenIdentifierNew(0), metadata |-> <<>>]
NoRandomized == [metadata |-> <<>>, point |-> PIdentity]
NoAnswer == [is_some |-> FALSE, value |-> [point |-> PIdentity]]
NoSigned == [id |-> TokenIdentifierNew(0), metadata |-> <<>>]
NoIter == [place |-> 0, key |-> 0, oks |-> <<>>]

SignedOf(e, id, md, w) ==
  IF e = "pairing" THEN [id |-> id, metadata |-> md, signature |-> w]
                   ELSE [id |-> id, metadata |-> md, point |-> w]

\* PublicKey::from(&PrivateKey) of the engine
PublicKeyOf(e, key) == IF IsPairing(e) THEN PairingPublicKey(key) ELSE NizkpPublicKey(key)

\* TokenEngine::randomize; draw is the scalar (single) or the seed (batched)
\* that randomize returns
EngineRandomize(e, ut, draw) ==
  CASE e = "pairing" -> PairingRandomize(ut, draw)
    [] e = "nizkp" -> NizkpRandomize(ut, draw)
    [] e = "batched_pairing" -> BatchedPairingRandomize(ut, draw)
    [] e = "batched_nizkp" -> BatchedNizkpRandomize(ut, draw)

\* TokenEngine::sign_randomized
EngineSignRandomized(e, t_prime, key, nonce) ==
  CASE e = "pairing" -> PairingSignRandomized(t_prime, key)
    [] e = "nizkp" -> NizkpSignRandomized(t_prime, key, nonce)
    [] e = "batched_pairing" -> BatchedPairingSignRandomized(t_prime, key)
    [] e = "batched_nizkp" -> BatchedNizkpSignRandomized(t_prime, key, nonce)

\* TokenEngine::verify_signature_and_unrandomize
EngineVerifyAndUnrandomize(e, ut, t_prime, st, pk, randomization) ==
  CASE e = "pairing" -> PairingVerifyAndUnrandomize(ut, t_prime, st, pk, randomization)
    [] e = "nizkp" -> NizkpVerifyAndUnrandomize(ut, t_prime, st, pk, randomization)
    [] e = "batched_pairing" -> BatchedPairingVerifyAndUnrandomize(ut, t_prime, st, pk, randomization)
    [] e = "batched_nizkp" -> BatchedNizkpVerifyAndUnrandomize(ut, t_prime, st, pk, randomization)

\* a dispatch in which the batched pairing verify weights the token points only
EngineVerify_TagsWeightedOnly(e, tok, key, rho) ==
  CASE e = "pairing" -> PairingSignedVerify(tok, PairingPublicKey(key))
    [] e = "nizkp" -> NizkpSignedVerify(tok, key)
    [] e = "batched_pairing" ->
         Pairing(PSum(tok.signatures), G2Add(G2Mul(G2Generator, h_m(tok.metadata)), PairingPublicKey(key)))
           = Pairing(PSum([i \in Slots |-> PMul(h_1(IdTag(tok.ids[i]), tok.metadata), rho[i])]), G2Generator)
    [] e = "batched_nizkp" -> NizkpSignedTokenBatchedVerify(tok, key)

\* SignedToken::verify of the engine; key is the verifier's secret scalar in
\* the NIZKP engines and the secret behind the public key in the pairing
\* ones; rho are the weights the batched pairing verify draws
EngineVerify(e, tok, key, rho) ==
  CASE e = "pairing" -> PairingSignedVerify(tok, PairingPublicKey(key))
    [] e = "nizkp" -> NizkpSignedVerify(tok, key)
    [] e = "batched_pairing" -> BatchedPairingSignedVerify(tok, PairingPublicKey(key), rho)
    [] e = "batched_nizkp" -> NizkpSignedTokenBatchedVerify(tok, key)

\* ------------------------------------------------ secp256k1 NIZKP engine
\* bytes_to_curve is unimplemented!(): every call aborts the thread
K256BytesToCurve(bytes) == [panics |-> TRUE, point |-> PIdentity]

\* h_t of atpm_nizkp: the digest goes to bytes_to_curve first
K256HT(t, md) == K256BytesToCurve(<<t, md>>)

\* NizkpTokenEngine::randomize: r.invert().unwrap() aborts for r = 0, then
\* get_point calls h_t
K256Randomize(ut, r) ==
  LET inverse == CtInvert(r)
      t == K256HT(IdTag(ut.id), ut.metadata)
  IN  IF ~inverse.is_some \/ t.panics
      THEN [panics |-> TRUE, value |-> NoRandomized]
      ELSE [panics |-> FALSE,
            value |-> [metadata |-> ut.metadata, point |-> PMul(t.point, inverse.value)]]

\* NizkpSignedToken::verify of atpm_nizkp
K256SignedVerify(tok, verification_key) ==
  LET t == K256HT(IdTag(tok.id), tok.metadata)
      e_inverse == SAdd(hash_to_scalar(tok.metadata), verification_key)
  IN  IF t.panics THEN [panics |-> TRUE, value |-> FALSE]
      ELSE [panics |-> FALSE, value |-> PMul(tok.point, e_inverse) = t.point]

\* points an attacker may put into a presented single token
CraftedPoints(id, md) ==
  {PMul(h_1(IdTag(id), md), s) : s \in Scalars}
    \cup {PMul(PGenerator, s) : s \in Scalars}
    \cup {PAdd(h_1(IdTag(id), md), PMul(PGenerator, s)) : s \in Scalars}

\* points an attacker may put into the free slots of a crafted batch
ArbitraryPoints(ids, md) ==
  {PIdentity, PGenerator} \cup {h_1(IdTag(ids[i]), md) : i \in Slots}

\* values a weight drawn by the batched pairing verify can take in a session
MaxWeight == 1
Weights == [Slots -> 0 .. MaxWeight]
NoWeights == [i \in Slots |-> 1]

\* State of the reference server (src/examples/server.rs), which the
\* specification of one engine session leaves alone.
VARIABLES used, req, srvKey

serverVars == <<used, req, srvKey>>

\* number of POST /resource requests in flight
MaxReq == 2
Requests == 1 .. MaxReq
NoRequest == [pc |-> "idle", point |-> NoSigned]

ServerIdle ==
  /\ used = <<>>
  /\ req = [r \in Requests |-> NoRequest]
  /\ srvKey = 0

\* One call of a library function on its own: the inputs it is given and
\* what it returned.
VARIABLE call

NoCall == [fn |-> "none"]

auxVars == <<serverVars, call>>
AuxIdle == ServerIdle /\ call = NoCall
allVars == <<vars, auxVars>>

Init ==
  /\ engine \in Engines
  /\ sk \in Draws
  /\ pc = "new"
  /\ unsigned = NoUnsigned
  /\ rnd = 0
  /\ rut = NoRandomized
  /\ signKey = 0
  /\ rst = NoAnswer
  /\ signed = NoSigned
  /\ origin = "none"
  /\ verKey = 0
  /\ verdicts = <<>>
  /\ iter = NoIter
  /\ baseline = <<>>
  /\ AuxIdle

\* TokenEngine::generate
Generate ==
  /\ pc = "new"
  /\ IF IsBatched(engine)
       THEN \E tags \in [Slots -> TagSpace], md \in Metadata :
              unsigned' = BatchedUnsignedNew(tags, md)
       ELSE \E t \in TagSpace, md \in Metadata :
              unsigned' = UnsignedNew(TokenIdentifierNew(t), md)
  /\ pc' = "unsigned"
  /\ UNCHANGED <<engine, sk, rnd, rut, signKey, rst, signed, origin, verKey, verdicts, iter, baseline>>
  /\ UNCHANGED auxVars

\* TokenEngine::generate_with_hidden (the batched engines leave it as todo!())
GenerateWithHidden ==
  /\ pc = "new"
  /\ ~IsBatched(engine)
  /\ \E t \in TagSpace, md \in Metadata, hidden \in Metadata :
       unsigned' = UnsignedNew(TokenIdentifierWithHidden(t, hidden), md)
  /\ pc' = "unsigned"
  /\ UNCHANGED <<engine, sk, rnd, rut, signKey, rst, signed, origin, verKey, verdicts, iter, baseline>>
  /\ UNCHANGED auxVars

\* TokenEngine::randomize: the pairing engines draw again until every scalar
\* is invertible, the NIZKP engines take the first draw
Randomize ==
  /\ pc = "unsigned"
  /\ engine # "k256"
  /\ \E draw \in IF IsBatched(engine) THEN Seeds ELSE Draws :
       /\ engine = "pairing" => CtInvert(draw).is_some
       /\ engine = "batched_pairing" => ~BatchedPairingRandomizeRetries(draw)
       /\ rnd' = draw
       /\ rut' = EngineRandomize(engine, unsigned, draw)
  /\ pc' = "randomized"
  /\ UNCHANGED <<engine, sk, unsigned, signKey, rst, signed, origin, verKey, verdicts, iter, baseline>>
  /\ UNCHANGED auxVars

\* TokenEngine::randomize of the secp256k1 engine: the call aborts or returns
RandomizeK256 ==
  /\ pc = "unsigned"
  /\ engine = "k256"
  /\ \E r \in Draws :
       LET res == K256Randomize(unsigned, r)
       IN  /\ rnd' = r
           /\ rut' = res.value
           /\ pc' = IF res.panics THEN "panicked" ELSE "randomized"
  /\ UNCHANGED <<engine, sk, unsigned, signKey, rst, signed, origin, verKey, verdicts, iter, baseline>>
  /\ UNCHANGED auxVars

\* TokenEngine::generate_with_hidden of a batched engine: with_hidden is todo!()
GenerateWithHiddenBatched ==
  /\ pc = "new"
  /\ IsBatched(engine)
  /\ pc' = "panicked"
  /\ UNCHANGED <<engine, sk, unsigned, rnd, rut, signKey, rst, signed, origin, verKey, verdicts, iter, baseline>>
  /\ UNCHANGED auxVars

\* the signing oracle of TokenEngine::sign: sign_randomized under a key
SignOracle ==
  /\ pc = "randomized"
  /\ \E key \in Draws, nonce \in Draws :
       /\ signKey' = key
       /\ rst' = EngineSignRandomized(engine, rut, key, nonce)
  /\ pc' = "answered"
  /\ UNCHANGED <<engine, sk, unsigned, rnd, rut, signed, origin, verKey, verdicts, iter, baseline>>
  /\ UNCHANGED auxVars

\* a sign that asks the oracle again when its option is empty
SignNone_AskAgain ==
  /\ pc = "answered"
  /\ ~rst.is_some
  /\ pc' = "randomized"
  /\ UNCHANGED <<engine, sk, unsigned, rnd, rut, signKey, rst, signed, origin, verKey, verdicts, iter, baseline>>
  /\ UNCHANGED auxVars

\* TokenEngine::sign returns None when the oracle's option is empty
SignNone ==
  /\ pc = "answered"
  /\ ~rst.is_some
  /\ pc' = "Rejected"
  /\ UNCHANGED <<engine, sk, unsigned, rnd, rut, signKey, rst, signed, origin, verKey, verdicts, iter, baseline>>
  /\ UNCHANGED auxVars

\* TokenEngine::verify_signature_and_unrandomize with the public key of sk
VerifyAndUnrandomize ==
  /\ pc = "answered"
  /\ rst.is_some
  /\ LET res == EngineVerifyAndUnrandomize(engine, unsigned, rut, rst.value, PublicKeyOf(engine, sk), rnd)
     IN IF res.some
          THEN /\ signed' = res.token
               /\ origin' = "issued"
               /\ pc' = "Signed"
          ELSE /\ pc' = "Rejected"
               /\ UNCHANGED <<signed, origin>>
  \* the randomized tokens are moved into the call
  /\ rut' = NoRandomized
  /\ rst' = NoAnswer
  /\ UNCHANGED <<engine, sk, unsigned, rnd, signKey, verKey, verdicts, iter, baseline>>
  /\ UNCHANGED auxVars

\* an attacker assembles a single signed token of its own
Forge ==
  /\ pc = "new"
  /\ ~IsBatched(engine)
  /\ \E id \in TokenIdentifiers, md \in Metadata :
       \E w \in CraftedPoints(id, md) :
         signed' = SignedOf(engine, id, md, w)
  /\ origin' = "crafted"
  /\ pc' = "Presented"
  /\ UNCHANGED <<engine, sk, unsigned, rnd, rut, signKey, rst, verKey, verdicts, iter, baseline>>
  /\ UNCHANGED auxVars

\* an attacker presents the issued signature(s) under other public metadata
SwapMetadata ==
  /\ pc = "Signed"
  /\ verdicts = <<>>
  /\ baseline = <<>>
  /\ iter = NoIter
  /\ \E md \in Metadata \ {signed.metadata} :
       signed' = [signed EXCEPT !.metadata = md]
  /\ origin' = "swapped"
  /\ pc' = "Presented"
  /\ UNCHANGED <<engine, sk, unsigned, rnd, rut, signKey, rst, verKey, verdicts, iter, baseline>>
  /\ UNCHANGED auxVars

\* the batch of tests::attack_no_lincomb: one signature of the signer on the
\* sum of the token points in the first slot, arbitrary points in the middle
\* slots, minus their sum in the last slot
AttackBatch ==
  /\ pc = "new"
  /\ engine = "batched_pairing"
  /\ \E tags \in [Slots -> TagSpace], md \in Metadata, r \in Draws :
       LET l == BatchedUnsignedNew(tags, md)
           s == PSum([i \in Slots |-> h_1(IdTag(l.ids[i]), md)])
           sum_t == PMul(s, CtInvert(r).value)
           s_token == PairingSignRandomized([metadata |-> md, point |-> sum_t], sk)
           w == PMul(s_token.value.point, r)
       IN /\ CtInvert(r).is_some
          /\ s_token.is_some
          /\ \E pts \in [2 .. (BatchN - 1) -> ArbitraryPoints(l.ids, md)] :
               signed' = [ids |-> l.ids, metadata |-> md,
                          signatures |-> [i \in Slots |->
                             IF i = 1 THEN w
                             ELSE IF i < BatchN THEN pts[i]
                             ELSE PNeg(PSum([j \in 1 .. (BatchN - 2) |-> pts[j + 1]]))]]
  /\ origin' = "attack"
  /\ pc' = "Presented"
  /\ UNCHANGED <<engine, sk, unsigned, rnd, rut, signKey, rst, verKey, verdicts, iter, baseline>>
  /\ UNCHANGED auxVars

\* TokenEngine::verify, called up to twice on the same token and key
Verify ==
  /\ pc \in {"Signed", "Presented"}
  /\ engine # "k256"
  /\ Len(verdicts) < 2
  /\ iter = NoIter
  /\ \E key \in Draws, rho \in IF engine = "batched_pairing" THEN Weights ELSE {NoWeights} :
       /\ verdicts # <<>> => key = verKey
       /\ verKey' = key
       /\ verdicts' = Append(verdicts, EngineVerify(engine, signed, key, rho))
  /\ UNCHANGED <<engine, sk, pc, unsigned, rnd, rut, signKey, rst, signed, origin, iter, baseline>>
  /\ UNCHANGED auxVars

\* TokenEngine::verify of the secp256k1 engine on a presented token
VerifyK256 ==
  /\ pc \in {"Signed", "Presented"}
  /\ engine = "k256"
  /\ \E key \in Draws :
       LET res == K256SignedVerify(signed, key)
       IN  /\ verKey' = key
           /\ verdicts' = IF res.panics THEN verdicts ELSE Append(verdicts, res.value)
           /\ pc' = IF res.panics THEN "panicked" ELSE pc
  /\ UNCHANGED <<engine, sk, unsigned, rnd, rut, signKey, rst, signed, origin, iter, baseline>>
  /\ UNCHANGED auxVars

\* the baseline verifier without the random linear combination
VerifyNoLinComb ==
  /\ pc \in {"Signed", "Presented"}
  /\ engine = "batched_pairing"
  /\ baseline = <<>>
  /\ verdicts = <<>>
  /\ iter = NoIter
  /\ baseline' = <<verify_no_lin_comb(signed, PairingPublicKey(sk))>>
  /\ UNCHANGED <<engine, sk, pc, unsigned, rnd, rut, signKey, rst, signed, origin, verKey, verdicts, iter>>
  /\ UNCHANGED auxVars

\* one step of `for token in signed.iter()`: the iterator yields the next
\* single token and PairingTokenEngine::verify is run on it
IterateNext ==
  /\ pc \in {"Signed", "Presented"}
  /\ engine = "batched_pairing"
  /\ verdicts = <<>>
  /\ baseline = <<>>
  /\ \E key \in Draws :
       LET nxt == BatchedIteratorNext(signed, iter.place)
       IN /\ iter.place > 0 => key = iter.key
          /\ nxt.some
          /\ iter' = [place |-> nxt.place, key |-> key,
                      oks |-> Append(iter.oks, PairingSignedVerify(nxt.token, PairingPublicKey(key)))]
  /\ UNCHANGED <<engine, sk, pc, unsigned, rnd, rut, signKey, rst, signed, origin, verKey, verdicts, baseline>>
  /\ UNCHANGED auxVars

Next ==
  \/ Generate
  \/ GenerateWithHidden
  \/ GenerateWithHiddenBatched
  \/ Randomize
  \/ RandomizeK256
  \/ SignOracle
  \/ SignNone
  \/ VerifyAndUnrandomize
  \/ Forge
  \/ SwapMetadata
  \/ AttackBatch
  \/ Verify
  \/ VerifyK256
  \/ VerifyNoLinComb
  \/ IterateNext

Spec == Init /\ [][Next]_allVars

\* =========================================================================
\* The reference server: POST /resource (src/examples/server.rs).
\* Rocket runs one handler per request on its worker threads, so the handlers
\* of several requests interleave at the points where none of them holds the
\* mutex of UsedTokens. UsedTokens::contains and UsedTokens::push each take
\* and release the mutex on their own.
\* =========================================================================
\* tokens a client can post: for two identifiers, the token the server's key
\* signs and one with a signature that is not of that key
ServerTokens(key) ==
  LET e == CtInvert(SAdd(h_m(<<1>>), key)).value
  IN  { [id |-> TokenIdentifierNew(t), metadata |-> <<1>>, signature |-> p] :
          t \in {0, 1}, p \in {PGenerator} } \cup
      { [id |-> TokenIdentifierNew(t), metadata |-> <<1>>,
         signature |-> PMul(h_1(t, <<1>>), e)] : t \in {0, 1} }

\* no engine session is running
SessionIdle ==
  /\ engine = "pairing" /\ sk = 0 /\ pc = "new" /\ unsigned = NoUnsigned
  /\ rnd = 0 /\ rut = NoRandomized /\ signKey = 0 /\ rst = NoAnswer
  /\ signed = NoSigned /\ origin = "none" /\ verKey = 0 /\ verdicts = <<>>
  /\ iter = NoIter /\ baseline = <<>>

\* Keys::new at launch: a key the server can sign <<1>> with
ServerInit ==
  /\ used = <<>>
  /\ req = [r \in Requests |-> NoRequest]
  /\ srvKey \in {k \in Draws : SAdd(h_m(<<1>>), k) # 0}
  /\ SessionIdle
  /\ call = NoCall

\* UsedTokens::contains: one critical section
UsedTokensContains(list, token) == \E i \in 1 .. Len(list) : PairingSignedTokenEq(list[i], token)

\* UsedTokens::push: one critical section
UsedTokensPush(list, token) == Append(list, token)

\* a request arrives: point.into_inner()
ResourcePost(r) ==
  /\ req[r].pc = "idle"
  /\ \E point \in ServerTokens(srvKey) :
       req' = [req EXCEPT ![r] = [pc |-> "received", point |-> point]]
  /\ UNCHANGED <<used, srvKey, vars, call>>

\* !used.contains(&point): a token on the list ends the handler with
\* Status::Unauthorized (&& does not evaluate verify)
ResourceContains(r) ==
  /\ req[r].pc = "received"
  /\ req' = [req EXCEPT ![r].pc = IF UsedTokensContains(used, req[r].point)
                                  THEN "denied" ELSE "checked"]
  /\ UNCHANGED <<used, srvKey, vars, call>>

\* && PairingTokenEngine::verify(&point, &keys.public)
ResourceVerify(r) ==
  /\ req[r].pc = "checked"
  /\ req' = [req EXCEPT ![r].pc =
               IF PairingSignedVerify(req[r].point, PairingPublicKey(srvKey))
               THEN "verified" ELSE "denied"]
  /\ UNCHANGED <<used, srvKey, vars, call>>

\* used.push(point); Ok("you have access to this resource")
ResourcePush(r) ==
  /\ req[r].pc = "verified"
  /\ used' = UsedTokensPush(used, req[r].point)
  /\ req' = [req EXCEPT ![r].pc = "granted"]
  /\ UNCHANGED <<srvKey, vars, call>>

ServerNext ==
  \E r \in Requests :
    \/ ResourcePost(r)
    \/ ResourceContains(r)
    \/ ResourceVerify(r)
    \/ ResourcePush(r)

ServerSpec == ServerInit /\ [][ServerNext]_allVars

\* =========================================================================
\* What the signer sees of a token (pairing engine). G1 is cyclic of prime
\* order, so each output of h_1 is the generator times a scalar nobody
\* knows; dl gives that scalar for the two tokens compared, and the signer
\* receives the group element, not the way it was computed.
\* =========================================================================
DlogOf(c) ==
  [b \in Basis |-> IF b = <<IdTag(c.ids[1]), c.md>> THEN c.dl[1]
                   ELSE IF b = <<IdTag(c.ids[2]), c.md>> THEN c.dl[2]
                   ELSE 1]

\* the element of G1 a vector denotes, as a multiple of the generator
GroupElement(p, dl) == CoordSumOver([b \in Basis |-> p[b] * dl[b]], Basis) % Q

\* RandomizedUnsignedToken as serialized to the signer: (point, metadata)
SignerView(c, i, r) ==
  LET t_prime == PairingRandomize(UnsignedNew(c.ids[i], c.md), r)
  IN  [metadata |-> t_prime.metadata, point |-> GroupElement(t_prime.point, DlogOf(c))]

\* a token of any identifier and one of a plain identifier, of the same public
\* metadata; equal tags are the same h_1 output
LinkInit ==
  /\ \E id1 \in TokenIdentifiers, id2 \in {TokenIdentifierNew(t) : t \in TagSpace},
        md \in Metadata, d1, d2 \in 1 .. (Q - 1) :
       /\ IdTag(id1) = IdTag(id2) => d1 = d2
       /\ call = [fn |-> "randomize", ids |-> <<id1, id2>>, md |-> md,
                  dl |-> <<d1, d2>>, who |-> 0, r |-> 0,
                  view |-> [metadata |-> md, point |-> 0]]
  /\ ServerIdle
  /\ SessionIdle

\* PairingTokenEngine::randomize of token i: the loop draws until the scalar
\* has an inverse, and the result goes to the signer
LinkRandomize(i) ==
  /\ \E r \in Scalars :
       IF CtInvert(r).is_some
       THEN call' = [call EXCEPT !.who = i, !.r = r, !.view = SignerView(call, i, r)]
       ELSE UNCHANGED call
  /\ UNCHANGED <<vars, serverVars>>

LinkNext == \E i \in {1, 2} : LinkRandomize(i)

LinkSpec == LinkInit /\ [][LinkNext]_allVars

\* =========================================================================
\* The DLEQ proof on its own (nizkp_curve25519/tokens.rs): a prover creates a
\* proof for (T, W, U), somebody may replace one of W, U, c, z on the way, and
\* the verifier runs verify.
\* =========================================================================
DleqPoints == {PMul(PGenerator, s) : s \in Scalars} \cup {PMul(h_t(0, <<1>>), s) : s \in Scalars}

\* The scalar v handed to verify as c. A scalar is a transcript hash only of
\* the string it was computed from; handed to verify with (t, w, u, z), v is
\* the hash of the transcript verify recomputes exactly when that transcript
\* hashes to v.
ChallengeOfScalar(v, z, t, w, public_key) ==
  LET a == PAdd(PMul(PGenerator, z), PMul(public_key, v))
      b == PAdd(PMul(w, z), PMul(t, v))
      c == DLEQHashData(public_key, t, w, a, b)
  IN  IF c.val = v THEN c ELSE [digest |-> <<>>, val |-> v]

\* test_proof: t, k and from them w = k^-1 * t and u = g * k
DleqInit ==
  /\ \E t \in DleqPoints, k \in Scalars :
       call = [fn |-> "dleq", stage |-> "start", t |-> t, k |-> k,
               w |-> PMul(t, DalekInvert(k)), u |-> PMul(PGenerator, k),
               proof |-> [c |-> [digest |-> <<>>, val |-> 0], z |-> 0],
               changed |-> "none", ok |-> FALSE]
  /\ ServerIdle
  /\ SessionIdle

\* DLEQProof::create with the nonce r
DleqCreate ==
  /\ call.stage = "start"
  /\ \E r \in Scalars :
       call' = [call EXCEPT !.stage = "created",
                            !.proof = DLEQCreate(call.t, call.w, call.k, r)]
  /\ UNCHANGED <<vars, serverVars>>

\* one of W, U, c, z is replaced by a different value before verify is called
DleqReplace ==
  /\ call.stage = "created"
  /\ call.changed = "none"
  /\ \/ \E w \in DleqPoints \ {call.w} : call' = [call EXCEPT !.changed = "W", !.w = w]
     \/ \E u \in DleqPoints \ {call.u} : call' = [call EXCEPT !.changed = "U", !.u = u]
     \/ \E z \in Scalars \ {call.proof.z} : call' = [call EXCEPT !.changed = "z", !.proof.z = z]
     \/ \E v \in Scalars \ {call.proof.c.val} :
          call' = [call EXCEPT !.changed = "c",
                     !.proof.c = ChallengeOfScalar(v, call.proof.z, call.t, call.w, call.u)]
  /\ UNCHANGED <<vars, serverVars>>

\* DLEQProof::verify
DleqVerify ==
  /\ call.stage = "created"
  /\ call' = [call EXCEPT !.stage = "verified",
                          !.ok = DLEQVerify(call.proof, call.t, call.w, call.u)]
  /\ UNCHANGED <<vars, serverVars>>

DleqNext == DleqCreate \/ DleqReplace \/ DleqVerify

DleqSpec == DleqInit /\ [][DleqNext]_allVars

\* =========================================================================
\* Serialization of CurvePoint (atpm_pairing/util.rs) and PublicKey
\* (atpm_pairing/keys.rs) with serde_json.
\* A compressed point is a flag byte (128: compressed, 64: infinity,
\* 32: the larger of the two points with this x) followed by the bytes of x.
\* The x of a point is what it shares with its negative: the coordinates of
\* the one of the two whose first nonzero coordinate is in the lower half.
\* =========================================================================
BasisSeq ==
  <<GenIdx>> \o [i \in 1 .. 3 * (MaxTag + 1) |->
                   <<(i - 1) \div 3, <<<<1>>, <<2>>, <<1, 2>>>>[((i - 1) % 3) + 1]>>]
Coords(p) == [i \in 1 .. Len(BasisSeq) |-> p[BasisSeq[i]]]
IsLargest(xs) ==
  LET nz == {i \in 1 .. Len(xs) : xs[i] # 0}
  IN  nz # {} /\ xs[CHOOSE i \in nz : \A j \in nz : i <= j] > (Q - 1) \div 2

\* a compression that leaves the sign flag out
G1ToCompressed_NoSign(p) ==
  <<128 + (IF p = PIdentity THEN 64 ELSE 0)>> \o Coords(IF IsLargest(Coords(p)) THEN PNeg(p) ELSE p)

\* G1Affine::to_compressed
G1ToCompressed(p) ==
  LET sign == IsLargest(Coords(p))
  IN  <<128 + (IF p = PIdentity THEN 64 ELSE 0) + (IF sign THEN 32 ELSE 0)>>
        \o Coords(IF sign THEN PNeg(p) ELSE p)

\* G1Affine::from_compressed on an array of the compressed length
G1FromCompressed(bytes) ==
  LET flags == bytes[1]
      xs == Tail(bytes)
      v == [b \in Basis |-> xs[CHOOSE i \in 1 .. Len(BasisSeq) : BasisSeq[i] = b]]
      infinity == (flags \div 64) % 2 = 1
      sign == (flags \div 32) % 2 = 1
      none == [is_some |-> FALSE, value |-> PIdentity]
  IN  IF (flags \div 128) % 2 = 0 \/ flags % 32 # 0 THEN none
      ELSE IF infinity
        THEN IF ~sign /\ v = PIdentity THEN [is_some |-> TRUE, value |-> PIdentity] ELSE none
      ELSE IF (\E i \in 1 .. Len(xs) : xs[i] >= Q) \/ v = PIdentity \/ IsLargest(xs) THEN none
      ELSE [is_some |-> TRUE, value |-> IF sign THEN PNeg(v) ELSE v]

\* G2Affine::to_compressed; the element g2 * x is the scalar x
G2ToCompressed(x) ==
  LET sign == x > (Q - 1) \div 2
  IN  <<128 + (IF x = 0 THEN 64 ELSE 0) + (IF sign THEN 32 ELSE 0), IF sign THEN Q - x ELSE x>>

\* G2Affine::from_compressed on an array of the compressed length
G2FromCompressed(bytes) ==
  LET flags == bytes[1]
      x == bytes[2]
      infinity == (flags \div 64) % 2 = 1
      sign == (flags \div 32) % 2 = 1
      none == [is_some |-> FALSE, value |-> 0]
  IN  IF (flags \div 128) % 2 = 0 \/ flags % 32 # 0 THEN none
      ELSE IF infinity
        THEN IF ~sign /\ x = 0 THEN [is_some |-> TRUE, value |-> 0] ELSE none
      ELSE IF x >= Q \/ x = 0 \/ x > (Q - 1) \div 2 THEN none
      ELSE [is_some |-> TRUE, value |-> IF sign THEN Q - x ELSE x]

\* serialize_struct(name, 1) with one field holding the bytes as a sequence:
\* the JSON object, as its list of (key, value) pairs
StructSerialize(field, bytes) == << <<field, bytes>> >>

\* a visitor that takes the value of whatever key it finds
StructDeserialize_AnyField(obj, field, len) ==
  IF Len(obj) # 1 \/ Len(obj[1][2]) # len
  THEN [ok |-> FALSE, bytes |-> <<>>]
  ELSE [ok |-> TRUE, bytes |-> obj[1][2]]

\* visit_map of the two visitors: any other key is an unknown field, a second
\* occurrence a duplicate, none a missing field; the value is a Vec<u8> that
\* must have the length of the compressed array
StructDeserialize(obj, field, len) ==
  IF \/ Len(obj) # 1
     \/ \E i \in 1 .. Len(obj) : obj[i][1] # field
     \/ \E i \in 1 .. Len(obj[1][2]) : obj[1][2][i] \notin 0 .. 255
     \/ Len(obj[1][2]) # len
  THEN [ok |-> FALSE, bytes |-> <<>>]
  ELSE [ok |-> TRUE, bytes |-> obj[1][2]]

\* impl Serialize for CurvePoint / for PublicKey
Serialize(kind, x) ==
  IF kind = "CurvePoint" THEN StructSerialize("point", G1ToCompressed(x))
                         ELSE StructSerialize("key", G2ToCompressed(x))

\* impl Deserialize for CurvePoint / for PublicKey
Deserialize(kind, obj) ==
  LET f == IF kind = "CurvePoint" THEN StructDeserialize(obj, "point", Len(BasisSeq) + 1)
                                  ELSE StructDeserialize(obj, "key", 2)
      maybe_point == IF kind = "CurvePoint" THEN G1FromCompressed(f.bytes)
                                            ELSE G2FromCompressed(f.bytes)
  IN  IF f.ok /\ maybe_point.is_some THEN [ok |-> TRUE, value |-> maybe_point.value]
      ELSE [ok |-> FALSE, value |-> IF kind = "CurvePoint" THEN PIdentity ELSE 0]

\* values the library produces: points of G1 and public keys
CodecPoints ==
  {PAdd(PMul(PGenerator, a), PMul(h_1(t, <<1>>), b)) : a, b \in Scalars, t \in {0, 1}}

CodecInit ==
  /\ \/ \E p \in CodecPoints :
          call = [fn |-> "serde", kind |-> "CurvePoint", stage |-> "value", x |-> p,
                  how |-> "none", json |-> <<>>, out |-> [ok |-> FALSE, value |-> PIdentity]]
     \/ \E k \in Scalars :
          call = [fn |-> "serde", kind |-> "PublicKey", stage |-> "value",
                  x |-> PairingPublicKey(k),
                  how |-> "none", json |-> <<>>, out |-> [ok |-> FALSE, value |-> 0]]
  /\ ServerIdle
  /\ SessionIdle

\* serde_json::to_string(&x)
CodecSerialize ==
  /\ call.stage = "value"
  /\ call' = [call EXCEPT !.stage = "serialized", !.json = Serialize(call.kind, call.x)]
  /\ UNCHANGED <<vars, serverVars>>

\* serde_json::from_str(&serialized)
CodecDeserialize ==
  /\ call.stage = "serialized"
  /\ call' = [call EXCEPT !.stage = "deserialized", !.out = Deserialize(call.kind, call.json)]
  /\ UNCHANGED <<vars, serverVars>>

\* ways a serialized value is damaged before it reaches the decoder
Damages == {"missing", "renamed", "short", "long", "uncompressed", "not_an_element"}

\* the JSON object with the field dropped or renamed, the byte string one
\* byte shorter or longer, the compression flag cleared, or the first byte of
\* x not below the modulus
Damaged(obj, how) ==
  LET field == obj[1][1]
      bytes == obj[1][2]
  IN  CASE how = "missing" -> <<>>
        [] how = "renamed" -> << <<"other", bytes>> >>
        [] how = "short" -> << <<field, SubSeq(bytes, 1, Len(bytes) - 1)>> >>
        [] how = "long" -> << <<field, Append(bytes, 0)>> >>
        [] how = "uncompressed" -> << <<field, [bytes EXCEPT ![1] = bytes[1] - 128]>> >>
        [] how = "not_an_element" -> << <<field, [bytes EXCEPT ![2] = Q]>> >>

\* serde_json::from_str on a damaged string (test_serde_fail)
CodecDeserializeDamaged ==
  /\ call.stage = "serialized"
  /\ \E how \in Damages :
       call' = [call EXCEPT !.stage = "refused", !.how = how,
                            !.json = Damaged(call.json, how),
                            !.out = Deserialize(call.kind, Damaged(call.json, how))]
  /\ UNCHANGED <<vars, serverVars>>

CodecNext == CodecSerialize \/ CodecDeserialize \/ CodecDeserializeDamaged

CodecSpec == CodecInit /\ [][CodecNext]_allVars

\* =========================================================================
\* Equality of token identifiers (common.rs) and of pairing signed tokens
\* (atpm_pairing/tokens.rs): two values are compared with ==.
\* =========================================================================
EqInit ==
  /\ \/ \E a, b \in TokenIdentifiers :
          call = [fn |-> "eq", kind |-> "TokenIdentifier", stage |-> "start",
                  lhs |-> a, rhs |-> b, result |-> FALSE]
     \/ \E ia, ib \in {TokenIdentifierNew(0), TokenIdentifierNew(1),
                       TokenIdentifierWithHidden(0, <<1>>)},
           ma, mb \in Metadata, pa, pb \in {PGenerator, h_1(0, <<1>>)} :
          call = [fn |-> "eq", kind |-> "PairingSignedToken", stage |-> "start",
                  lhs |-> [id |-> ia, metadata |-> ma, signature |-> pa],
                  rhs |-> [id |-> ib, metadata |-> mb, signature |-> pb],
                  result |-> FALSE]
  /\ ServerIdle
  /\ SessionIdle

\* lhs == rhs on two token identifiers
CompareIdentifiers ==
  /\ call.stage = "start" /\ call.kind = "TokenIdentifier"
  /\ call' = [call EXCEPT !.stage = "compared",
                          !.result = TokenIdentifierEq(call.lhs, call.rhs)]
  /\ UNCHANGED <<vars, serverVars>>

\* lhs == rhs on two pairing signed tokens
CompareSignedTokens ==
  /\ call.stage = "start" /\ call.kind = "PairingSignedToken"
  /\ call' = [call EXCEPT !.stage = "compared",
                          !.result = PairingSignedTokenEq(call.lhs, call.rhs)]
  /\ UNCHANGED <<vars, serverVars>>

EqNext == CompareIdentifiers \/ CompareSignedTokens

EqSpec == EqInit /\ [][EqNext]_allVars

\* =========================================================================
\* verify_signature_and_unrandomize called on its own: the unsigned token,
\* the randomized unsigned token, the signer's response, the randomization
\* and the public key are arguments the caller and the signer control; the
\* token it returns is then handed to verify.
\* =========================================================================
\* batches the client asks a signature for
ClientBatches == {<<0, 1, 2>>, <<0, 0, 1>>}

\* responses [W'_i] a signer can compute from the randomized batch: with
\* a = 0 and b = 1 the response of sign_randomized under sign_key, otherwise
\* slot 1 shifted by a multiple of slot 2 and slot 2 scaled
CraftedBatchResponse(t_prime, sign_key, a, b) ==
  LET e == InvOrZero(SAdd(h_m(t_prime.metadata), sign_key))
  IN [points |-> [i \in Slots |->
        CASE i = 1 -> PMul(PAdd(t_prime.points[1], PMul(t_prime.points[2], a)), e)
          [] i = 2 -> PMul(t_prime.points[2], SMul(b, e))
          [] OTHER -> PMul(t_prime.points[i], e)]]

ClientInit ==
  /\ \E key \in Draws :
       \/ \E id \in {TokenIdentifierNew(0), TokenIdentifierWithHidden(1, <<2>>)},
             md, rmd, smd \in Metadata, r \in Scalars, known \in BOOLEAN :
          \E w \in CraftedPoints(id, md) :
            LET ut == UnsignedNew(id, md)
            IN call = [fn |-> "client", engine |-> "pairing", stage |-> "start",
                       ut |-> ut,
                       rut |-> [metadata |-> rmd, point |-> IF known THEN PairingRandomize(ut, r).point ELSE PIdentity],
                       st |-> [metadata |-> smd, point |-> w],
                       key |-> key, r |-> r,
                       some |-> FALSE, token |-> NoSigned, verdicts |-> <<>>]
       \/ \E id \in {TokenIdentifierNew(0), TokenIdentifierWithHidden(1, <<2>>)},
             md, smd \in Metadata, r, s \in Scalars, sign_key, nonce \in Draws :
            LET ut == UnsignedNew(id, md)
                t_prime == [metadata |-> smd, point |-> PMul(h_t(IdTag(id), md), s)]
            IN call = [fn |-> "client", engine |-> "nizkp", stage |-> "start",
                       ut |-> ut, rut |-> t_prime,
                       st |-> NizkpSignRandomized(t_prime, sign_key, nonce).value,
                       key |-> key, r |-> r,
                       some |-> FALSE, token |-> NoSigned, verdicts |-> <<>>]
       \/ \E tags \in ClientBatches, md \in Metadata, sign_key \in Draws, a, b \in Scalars,
             seed \in {x \in Seeds : ~BatchedPairingRandomizeRetries(x)} :
            LET ut == BatchedUnsignedNew(tags, md)
                t_prime == BatchedPairingRandomize(ut, seed)
            IN call = [fn |-> "client", engine |-> "batched_pairing", stage |-> "start",
                       ut |-> ut, rut |-> t_prime,
                       st |-> CraftedBatchResponse(t_prime, sign_key, a, b),
                       key |-> key, r |-> seed,
                       some |-> FALSE, token |-> NoSigned, verdicts |-> <<>>]
  /\ ServerIdle
  /\ SessionIdle

\* Engine::verify_signature_and_unrandomize(ut, rut, st, &pk, r)
ClientCheck ==
  /\ call.stage = "start"
  /\ LET res == EngineVerifyAndUnrandomize(call.engine, call.ut, call.rut, call.st,
                                           PublicKeyOf(call.engine, call.key), call.r)
     IN call' = [call EXCEPT !.stage = "checked", !.some = res.some, !.token = res.token]
  /\ UNCHANGED <<vars, serverVars>>

\* the holder of the returned token calls verify: on the token itself in the
\* single-token engines, on every token of batch.iter() in the batched one
ClientVerify ==
  /\ call.stage = "checked"
  /\ call.some
  /\ call' = [call EXCEPT !.stage = "verified", !.verdicts =
       CASE call.engine = "pairing" ->
              <<PairingSignedVerify(call.token, PairingPublicKey(call.key))>>
         [] call.engine = "nizkp" ->
              <<NizkpSignedVerify(call.token, call.key)>>
         [] OTHER ->
              [i \in Slots |-> PairingSignedVerify(BatchedIteratorNext(call.token, i - 1).token,
                                                   PairingPublicKey(call.key))]]
  /\ UNCHANGED <<vars, serverVars>>

ClientNext == ClientCheck \/ ClientVerify

ClientSpec == ClientInit /\ [][ClientNext]_allVars

\* =========================================================================
\* A batched Ristretto token presented to NizkpSignedTokenBatched::verify.
\* The presenter holds a batch issued under key and may alter its points.
\* =========================================================================
\* the batch sign_randomized and verify_signature_and_unrandomize yield for
\* the tags under key: W_i = H_t(tag_i, M) * (H_s(M) + key)^-1
IssuedNizkpBatch(tags, md, key) ==
  [ids |-> [i \in Slots |-> TokenIdentifierNew(tags[i])],
   metadata |-> md,
   points |-> [i \in Slots |-> PMul(h_t(tags[i], md), DalekInvert(SAdd(hash_to_scalar(md), key)))]]

\* the batch with d added to slot i and taken from slot j
CompensatedBatch(tok, i, j, d) ==
  [tok EXCEPT !.points = [n \in Slots |->
     CASE n = i /\ i # j -> PAdd(tok.points[n], d)
       [] n = j /\ i # j -> PAdd(tok.points[n], PNeg(d))
       [] OTHER -> tok.points[n]]]

PresentInit ==
  /\ \E tags \in [Slots -> TagSpace], md \in Metadata, key \in Draws, i, j \in Slots :
       LET tok == IssuedNizkpBatch(tags, md, key)
       IN \E d \in {PIdentity, PGenerator, PAdd(tok.points[j], PNeg(tok.points[i]))} :
            call = [fn |-> "present", stage |-> "start", key |-> key,
                    token |-> CompensatedBatch(tok, i, j, d), result |-> FALSE]
  /\ ServerIdle
  /\ SessionIdle

\* token.verify(&sk)
PresentVerify ==
  /\ call.stage = "start"
  /\ call' = [call EXCEPT !.stage = "verified",
                          !.result = NizkpSignedTokenBatchedVerify(call.token, call.key)]
  /\ UNCHANGED <<vars, serverVars>>

PresentNext == PresentVerify

PresentSpec == PresentInit /\ [][PresentNext]_allVars

\* =========================================================================
\* TokenEngine::randomize step by step: one action is one pass through the
\* sampling loop (pairing) or one call of the recursive randomize (batched
\* pairing, batched secp256k1).
\* =========================================================================
\* how many failed passes the model tells apart
MaxRetry == 2

\* the byte strings fill_bytes can produce, read as integers: some are not
\* below the group order
RawScalars == 0 .. (2 * Q - 1)

\* Scalar::from_bytes: CtOption, empty for a non-canonical encoding
ScalarFromBytes(raw) == [is_some |-> raw < Q, value |-> raw % Q]

RandomizeInit ==
  /\ \/ \E id \in TokenIdentifiers, md \in Metadata :
          call = [fn |-> "randomize", engine |-> "pairing", stage |-> "sampling",
                  ut |-> UnsignedNew(id, md), retries |-> 0, r |-> 0, out |-> NoRandomized]
     \/ \E tags \in [Slots -> TagSpace], md \in Metadata, e \in {"batched_pairing", "batched_k256"} :
          call = [fn |-> "randomize", engine |-> e, stage |-> "sampling",
                  ut |-> BatchedUnsignedNew(tags, md), retries |-> 0, r |-> 0, out |-> NoRandomized]
  /\ ServerIdle
  /\ SessionIdle

\* one pass of PairingTokenEngine::randomize's loop in which thread_rng
\* yields the bytes raw: random_vartime draws again on a non-canonical
\* encoding, the loop goes round on a scalar without inverse, and otherwise
\* randomize returns
PairingRandomizePass(raw) ==
  /\ call.stage = "sampling"
  /\ call.engine = "pairing"
  /\ LET s == ScalarFromBytes(raw)
     IN IF s.is_some /\ CtInvert(s.value).is_some
          THEN call' = [call EXCEPT !.stage = "returned", !.r = s.value,
                                    !.out = PairingRandomize(call.ut, s.value)]
          ELSE call' = [call EXCEPT !.retries = Min(call.retries + 1, MaxRetry)]
  /\ UNCHANGED <<vars, serverVars>>

\* one call of BatchedPairingTokenEngine::randomize with the seed thread_rng
\* yields: it calls itself again when one of the N scalars has no inverse
BatchedPairingRandomizeCall(seed) ==
  /\ call.stage = "sampling"
  /\ call.engine = "batched_pairing"
  /\ IF BatchedPairingRandomizeRetries(seed)
       THEN call' = [call EXCEPT !.retries = Min(call.retries + 1, MaxRetry)]
       ELSE call' = [call EXCEPT !.stage = "returned", !.r = seed,
                                 !.out = BatchedPairingRandomize(call.ut, seed)]
  /\ UNCHANGED <<vars, serverVars>>

\* one call of the batched secp256k1 randomize: the same retry, and once all
\* N scalars are invertible the token points are hashed with h_t
BatchedK256RandomizeCall(seed) ==
  /\ call.stage = "sampling"
  /\ call.engine = "batched_k256"
  /\ IF BatchedPairingRandomizeRetries(seed)
       THEN call' = [call EXCEPT !.retries = Min(call.retries + 1, MaxRetry)]
       ELSE IF \E i \in Slots : K256HT(IdTag(call.ut.ids[i]), call.ut.metadata).panics
              THEN call' = [call EXCEPT !.stage = "panicked", !.r = seed]
              ELSE call' = [call EXCEPT !.stage = "returned", !.r = seed,
                     !.out = [points |-> [i \in Slots |->
                                PMul(K256HT(IdTag(call.ut.ids[i]), call.ut.metadata).point,
                                     CtInvert(SeedStream(seed, i)).value)],
                              metadata |-> call.ut.metadata]]
  /\ UNCHANGED <<vars, serverVars>>

PairingRandomizeLoop == \E raw \in RawScalars : PairingRandomizePass(raw)
BatchedPairingRandomizeRecursion == \E seed \in Seeds : BatchedPairingRandomizeCall(seed)
BatchedK256RandomizeRecursion == \E seed \in Seeds : BatchedK256RandomizeCall(seed)

\* the passes of a fair generator: bytes that are a canonical invertible
\* scalar, a seed whose N scalars are all invertible
FairPairingDraw ==
  \E raw \in {x \in RawScalars : ScalarFromBytes(x).is_some /\ CtInvert(ScalarFromBytes(x).value).is_some} :
    PairingRandomizePass(raw)
FairBatchedPairingSeed ==
  \E seed \in {x \in Seeds : ~BatchedPairingRandomizeRetries(x)} : BatchedPairingRandomizeCall(seed)
FairBatchedK256Seed ==
  \E seed \in {x \in Seeds : ~BatchedPairingRandomizeRetries(x)} : BatchedK256RandomizeCall(seed)

RandomizeNext ==
  \/ PairingRandomizeLoop
  \/ BatchedPairingRandomizeRecursion
  \/ BatchedK256RandomizeRecursion

\* thread_rng is fair: a draw that lets randomize go on is not withheld
\* forever
RandomizeSpec ==
  /\ RandomizeInit
  /\ [][RandomizeNext]_allVars
  /\ WF_allVars(FairPairingDraw)
  /\ WF_allVars(FairBatchedPairingSeed)
  /\ WF_allVars(FairBatchedK256Seed)

\* =========================================================================
\* Properties
\* =========================================================================
\* H_s(M) + key of the session: the scalar sign_randomized inverts
SessionKeySum ==
  SAdd(IF IsPairing(engine) THEN h_m(unsigned.metadata) ELSE hash_to_scalar(unsigned.metadata), signKey)

\* the session of TokenEngine::sign has ended with Some(token)
Issued == pc = "Signed" /\ origin = "issued"

Fresh == verdicts = <<>> /\ baseline = <<>> /\ iter = NoIter

\* every assignment of scalars to the weights rho_i
AllWeights == [Slots -> Scalars]

\* sum of rho_i * H_t(tag_i, M) over the slots of a batched pairing token
WeightedTagSum(tok, rho) ==
  PSum([i \in Slots |-> PMul(h_1(IdTag(tok.ids[i]), tok.metadata), rho[i])])

TestAttackBatch ==
  /\ origin = "attack"
  /\ \A i, j \in Slots : i # j => IdTag(signed.ids[i]) # IdTag(signed.ids[j])
  /\ \A j \in 2 .. (BatchN - 1) : signed.signatures[j] = PIdentity

C5_BaselineAcceptsAttack ==
  (origin = "attack" /\ baseline # <<>>) => baseline[1]

C5_Witness ==
  /\ origin = "attack"
  /\ baseline = <<TRUE>>
  /\ signed.signatures[2] # PIdentity

\* C6: every single token the iterator of an honestly issued batched pairing
\* token yields is accepted by the single-token verify under the public key
\* the batch was issued for.
C6_BatchToSingle ==
  (engine = "batched_pairing" /\ Issued /\ iter.oks # <<>> /\ iter.key = sk) =>
    \A n \in 1 .. Len(iter.oks) : iter.oks[n]

C6_Witness ==
  /\ engine = "batched_pairing"
  /\ Issued
  /\ iter.place = BatchN
  /\ iter.key = sk
  /\ iter.oks[BatchN]
  /\ signed.ids[1] # signed.ids[2]

\* the unrandomized points of a batched signed token of either engine
BatchPoints(e, tok) == IF e = "batched_pairing" THEN tok.signatures ELSE tok.points

C8_AsStated ==
  Len(verdicts) = 2 => verdicts[1] = verdicts[2]

\* C8: two calls of verify on the same token and key return the same result
\* in the pairing, the Ristretto and the batched Ristretto engines for every
\* token, and in the batched pairing engine for an honestly issued token
\* under the matching key; on other batched pairing inputs the result
\* depends on the weights the call draws.
C8_VerifyDeterministic ==
  (Len(verdicts) = 2 /\ (engine # "batched_pairing" \/ (Issued /\ verKey = signKey))) =>
    verdicts[1] = verdicts[2]

C8_Witness ==
  /\ engine = "batched_pairing"
  /\ Issued
  /\ verKey = signKey
  /\ Len(verdicts) = 2
  /\ verdicts[2]

\* W is the signature the signer with this key issues for (TID, M)
IssuedSignature(tok, key) ==
  LET s == PairingSignRandomized([metadata |-> tok.metadata, point |-> h_1(IdTag(tok.id), tok.metadata)], key)
  IN s.is_some /\ s.value.point = tok.signature

\* C9: in the pairing engine verify(token, pk) is true if and only if the
\* token's W is the signature sign_randomized issues with sk for its
\* identifier and metadata, (H_s(M)+sk)^-1 * H_t(tag(TID), M).
C9_ValidIffIssued ==
  (engine = "pairing" /\ verdicts # <<>>) =>
    \A n \in 1 .. Len(verdicts) : verdicts[n] <=> IssuedSignature(signed, verKey)

C9_Witness ==
  /\ engine = "pairing"
  /\ origin = "crafted"
  /\ verdicts # <<>>
  /\ verdicts[1]
  /\ signed.id.kind = "WithHidden"

C11_GrantedAtMostOnce ==
  \A r1, r2 \in Requests :
    (r1 # r2 /\ req[r1].pc = "granted" /\ req[r2].pc = "granted")
      => req[r1].point # req[r2].point

\* -------------------------------------------------------------------------
\* C12: unlinkability of the pairing engine. The signer receives (U', M)
\* only; the set of values U' can take, and the number of blinding scalars
\* that give each of them, is the same for every token identifier and hidden
\* metadata, so what the signer saw of one token is as possible for the other.
ViewsOf(c, i) == {SignerView(c, i, r) : r \in Scalars \ {0}}
WaysToView(c, i, v) == Cardinality({r \in Scalars \ {0} : SignerView(c, i, r) = v})
C12_Unlinkable ==
  call.fn = "randomize" =>
    /\ ViewsOf(call, 1) = ViewsOf(call, 2)
    /\ \A v \in ViewsOf(call, 1) : WaysToView(call, 1, v) = WaysToView(call, 2, v)
    /\ call.who # 0 => /\ call.r # 0
                       /\ call.view \in ViewsOf(call, 1) \cap ViewsOf(call, 2)
                       /\ DOMAIN call.view = {"metadata", "point"}

\* the signer has received the view of a token with hidden metadata while the
\* other token has a different tag and a different discrete logarithm
C12_Witness ==
  /\ call.fn = "randomize" /\ call.who = 1
  /\ call.ids[1].kind = "WithHidden"
  /\ IdTag(call.ids[1]) # IdTag(call.ids[2])
  /\ call.dl[1] # call.dl[2]

\* -------------------------------------------------------------------------
\* C13: in every engine, single and batched, the blinding scalars that
\* randomize returns are never zero, so each randomized point is the token's
\* point times the inverse of a nonzero scalar.
C13_BlindingNeverZero ==
  pc = "randomized" =>
    IF IsBatched(engine) THEN \A i \in Slots : SeedStream(rnd, i) # 0
                         ELSE rnd # 0

\* -------------------------------------------------------------------------
\* C14: in the pairing engines, single and batched, sign_randomized returns an
\* empty option exactly when H_s(M) + sk = 0; otherwise the option is present
\* and every returned point W' satisfies (H_s(M) + sk) * W' = U', with the one
\* scalar H_s(M) + sk shared by all slots of a batch.
C14_PairingSignOption ==
  (pc = "answered" /\ IsPairing(engine)) =>
    LET e == SAdd(h_m(rut.metadata), signKey)
    IN  /\ rst.is_some <=> e # 0
        /\ rst.is_some =>
             IF engine = "pairing"
             THEN /\ PMul(rst.value.point, e) = rut.point
                  /\ rst.value.metadata = rut.metadata
             ELSE \A i \in Slots : PMul(rst.value.points[i], e) = rut.points[i]

\* a batched answer that is present, on distinct points, under a key other
\* than the session's
C14_Witness ==
  /\ pc = "answered" /\ engine = "batched_pairing"
  /\ rst.is_some
  /\ rut.points[1] # rut.points[2]
  /\ signKey # sk

\* -------------------------------------------------------------------------
\* C15: in the Ristretto engines, single and batched, when H_s(M) + sk = 0 the
\* inversion failure of sign_randomized is reported as an empty option, so
\* the session of TokenEngine::sign does not end with a token.
C15_InversionFailureEmpty ==
  (~IsPairing(engine) /\ SessionKeySum = 0) =>
    /\ pc = "answered" => ~rst.is_some
    /\ pc # "Signed"

\* -------------------------------------------------------------------------
\* C16: the secp256k1 NIZKP engine completes the issuance: a session that
\* generates a token (with or without hidden metadata) and randomizes it goes
\* on to a signed token; no step of it aborts.
C16_K256Completes ==
  (engine = "k256" /\ origin # "crafted") => pc # "panicked"

\* -------------------------------------------------------------------------
\* C17: no protocol operation panics: in every engine, generate,
\* generate_with_hidden, randomize, sign_randomized,
\* verify_signature_and_unrandomize and verify return a value.
C17_NoPanic == pc # "panicked"

\* -------------------------------------------------------------------------
\* C18: DLEQ completeness. For every nonzero k, every point T, W = k^-1 * T
\* and U = g * k, the proof that create(T, W, k) returns, whatever nonce it
\* drew, is accepted by verify(T, W, U).
C18_DleqComplete ==
  (call.fn = "dleq" /\ call.stage = "verified" /\ call.changed = "none" /\ call.k # 0)
    => call.ok

\* an untouched proof for a hash-to-group point, with a nonzero challenge and
\* response, has been verified
C18_Witness ==
  /\ call.fn = "dleq" /\ call.stage = "verified" /\ call.changed = "none"
  /\ call.k > 1
  /\ call.t = h_t(0, <<1>>)
  /\ call.proof.c.val # 0 /\ call.proof.z # 0
  /\ call.ok

C20_RoundTrip ==
  (call.fn = "serde" /\ call.stage = "deserialized")
    => call.out.ok /\ call.out.value = call.x

\* a point with the sign flag set, not a multiple of the generator, has made
\* the round trip
C20_Witness ==
  /\ call.fn = "serde" /\ call.stage = "deserialized" /\ call.kind = "CurvePoint"
  /\ call.json[1][2][1] = 160
  /\ call.x[<<0, <<1>>>>] # 0
  /\ call.out.ok

\* -------------------------------------------------------------------------
\* C21: decoders reject malformed input with an error value. Deserializing a
\* PublicKey or a CurvePoint returns an error, never a key or a point, when
\* the expected field is missing or has another name, when the byte string
\* has the wrong length, or when the bytes do not decompress to a group
\* element.
C21_MalformedRejected ==
  (call.fn = "serde" /\ call.stage = "refused") => ~call.out.ok

\* a curve point whose bytes no longer decompress, in an object of the right
\* shape and length, has been refused
C21_Witness ==
  /\ call.fn = "serde" /\ call.stage = "refused" /\ call.kind = "CurvePoint"
  /\ call.how = "not_an_element"
  /\ Len(call.json) = 1 /\ call.json[1][1] = "point"
  /\ Len(call.json[1][2]) = Len(BasisSeq) + 1
  /\ ~call.out.ok

\* -------------------------------------------------------------------------
\* C22: protocol ordering and terminal states. In the composite sign a token
\* is randomized only from the unsigned state, the signing oracle is invoked
\* only on the randomized token and exactly once, and the session ends Signed
\* or Rejected only from the oracle's answer; an empty option ends it Rejected
\* with the randomized token not handed to verify_signature_and_unrandomize;
\* once Signed or Rejected, no step of the issuance is taken again.
C22_Step ==
  /\ (pc' = "randomized" /\ pc # "randomized") => pc = "unsigned"
  /\ (pc' = "answered" /\ pc # "answered") => pc = "randomized"
  /\ pc = "answered" => pc' \in {"answered", "Signed", "Rejected"}
  /\ (pc = "answered" /\ pc' # pc /\ ~rst.is_some)
       => (pc' = "Rejected" /\ UNCHANGED <<rut, rst, signed>>)
  /\ (pc' \in {"Signed", "Rejected"} /\ pc' # pc) => pc = "answered"
  /\ pc \in {"answered", "Signed", "Rejected"} => UNCHANGED <<unsigned, rnd, signKey>>
  /\ pc \in {"Signed", "Rejected"}
       => (UNCHANGED <<rut, rst>> /\ pc' \notin {"new", "unsigned", "randomized", "answered"})
  /\ pc = "Rejected" => UNCHANGED vars
C22_Ordering == [][C22_Step]_allVars

\* sign has returned None on an empty option: the randomized token was not
\* moved into verify_signature_and_unrandomize
C22_Witness ==
  /\ pc = "Rejected"
  /\ rut.metadata # <<>>
  /\ ~rst.is_some
  /\ SessionKeySum = 0

\* -------------------------------------------------------------------------
\* C23: token identifier equality is by consumed tag. Two identifiers
\* compare equal if and only if their tags are equal, the tag of Id(t) being
\* t and the tag of WithHidden(t, h) the digest of h and t; an Id and a
\* WithHidden with the same tag are equal.
C23_EqualByTag ==
  (call.fn = "eq" /\ call.kind = "TokenIdentifier" /\ call.stage = "compared")
    => LET tag(x) == IF x.kind = "Id" THEN x.t ELSE HiddenDigest(x.h, x.t)
       IN  call.result <=> tag(call.lhs) = tag(call.rhs)

\* an Id and a WithHidden of another random part but the same tag have been
\* found equal
C23_Witness ==
  /\ call.fn = "eq" /\ call.kind = "TokenIdentifier" /\ call.stage = "compared"
  /\ call.lhs.kind = "Id" /\ call.rhs.kind = "WithHidden"
  /\ call.lhs.t # call.rhs.t
  /\ call.result

\* -------------------------------------------------------------------------
\* C24: two pairing signed tokens compare equal only if they have the same
\* identifier tag, the same signature point and the same metadata byte
\* string, in length and in content.
C24_EqualOnlyIfSame ==
  (call.fn = "eq" /\ call.kind = "PairingSignedToken" /\ call.stage = "compared"
     /\ call.result)
    => /\ IdTag(call.lhs.id) = IdTag(call.rhs.id)
       /\ call.lhs.signature = call.rhs.signature
       /\ call.lhs.metadata = call.rhs.metadata

\* H_s(M) + sk for the public key the client checks against
ClientKeySum == SAdd(h_m(call.ut.metadata), call.key)

\* W'_i - U'_i / (H_s(M) + sk): how far slot i of the response is from the
\* signature under the client's public key
Deviation(i) ==
  PAdd(call.st.points[i], PNeg(PMul(call.rut.points[i], InvOrZero(ClientKeySum))))

\* C25 as stated: whenever the batched pairing verify_signature_and_unrandomize
\* returns Some(batch), every token of batch.iter() is accepted by the
\* single-token verify under the same public key.
C25_AsStated ==
  (call.fn = "client" /\ call.engine = "batched_pairing" /\ call.stage = "verified") =>
    \A i \in Slots : call.verdicts[i]

\* C25: the batched pairing verify_signature_and_unrandomize returns Some
\* exactly when the deviations of the response from the honest signatures,
\* weighted by the r_i rederived from the seed, sum to the identity (never
\* when H_s(M) + sk = 0), and token i of an accepted batch is accepted by the
\* single-token verify exactly when slot i of the response does not deviate.
C25_ClientCheckIsWeightedSum ==
  (call.fn = "client" /\ call.engine = "batched_pairing" /\ call.stage # "start") =>
    /\ ClientKeySum = 0 => ~call.some
    /\ ClientKeySum # 0 =>
         (call.some <=> PSum([i \in Slots |-> PMul(Deviation(i), SeedStream(call.r, i))]) = PIdentity)
    /\ call.stage = "verified" =>
         \A i \in Slots : call.verdicts[i] <=> Deviation(i) = PIdentity

C25_Witness ==
  /\ call.fn = "client"
  /\ call.engine = "batched_pairing"
  /\ call.stage = "verified"
  /\ Deviation(1) # PIdentity
  /\ ~call.verdicts[1]
  /\ call.verdicts[3]

\* C26: pairing single-token engine: for any unsigned token, any point W' in
\* the response, any scalar r and any public key, a token that
\* verify_signature_and_unrandomize returned as Some is accepted by verify
\* under the same public key.
C26_ClientAcceptanceImpliesVerify ==
  (call.fn = "client" /\ call.engine = "pairing" /\ call.stage = "verified") =>
    call.verdicts[1]

\* accepted although the response is not what sign_randomized gives on the
\* randomized token passed back, and with r = 1
C26_Witness ==
  /\ call.fn = "client"
  /\ call.engine = "pairing"
  /\ call.stage = "verified"
  /\ call.rut.point = PIdentity
  /\ call.st.metadata # call.ut.metadata
  /\ call.r = 1
  /\ call.verdicts[1]

\* C27: Ristretto NIZKP engine: for every unsigned token, randomized unsigned
\* token, signer response and randomization scalar passed in, a token that
\* verify_signature_and_unrandomize returned as Some under pk = g * sk is
\* accepted by verify(token, sk).
C27_ClientAcceptanceImpliesVerify ==
  (call.fn = "client" /\ call.engine = "nizkp" /\ call.stage = "verified") =>
    call.verdicts[1]

\* C28: a batch that NizkpSignedTokenBatched::verify accepts under sk
\* satisfies the single-token equation W_i * (H_s(M) + sk) = H_t(tag_i, M)
\* in every slot; a batch whose signatures were altered with their sum kept
\* is rejected.
C28_BatchedVerifySound ==
  (call.fn = "present" /\ call.stage = "verified" /\ call.result) =>
    \A i \in Slots :
      PMul(call.token.points[i], SAdd(hash_to_scalar(call.token.metadata), call.key))
        = h_t(IdTag(call.token.ids[i]), call.token.metadata)

\* C29: the Signed token that verify_signature_and_unrandomize returns
\* carries the identifier(s) and the metadata of the client's own unsigned
\* token and the point r * W' (r_i * W'_i in a batch); in the pairing engine
\* the result, Some or None, is the same whatever randomized unsigned token is
\* passed back and whatever metadata the signer's response holds.
C29_TokenFromOwnUnsigned ==
  (call.fn = "client" /\ call.stage # "start") =>
    /\ call.some =>
         /\ call.token.metadata = call.ut.metadata
         /\ call.engine = "pairing" =>
              /\ call.token.id = call.ut.id
              /\ call.token.signature = PMul(call.st.point, call.r)
         /\ call.engine = "nizkp" =>
              /\ call.token.id = call.ut.id
              /\ call.token.point = PMul(call.st.point, call.r)
         /\ call.engine = "batched_pairing" =>
              /\ call.token.ids = call.ut.ids
              /\ \A i \in Slots :
                   call.token.signatures[i] = PMul(call.st.points[i], SeedStream(call.r, i))
    /\ call.engine = "pairing" =>
         \A rmd, smd \in Metadata, p \in {PIdentity, PGenerator, call.rut.point} :
           LET res == PairingVerifyAndUnrandomize(call.ut, [metadata |-> rmd, point |-> p],
                                                  [metadata |-> smd, point |-> call.st.point],
                                                  PairingPublicKey(call.key), call.r)
           IN /\ res.some = call.some
              /\ res.some => res.token = call.token

\* a pairing client accepted a response that names other metadata
C29_Witness ==
  /\ call.fn = "client"
  /\ call.engine = "pairing"
  /\ call.stage = "checked"
  /\ call.some
  /\ call.st.metadata # call.ut.metadata
  /\ call.rut.metadata # call.ut.metadata
  /\ call.token.metadata = call.ut.metadata

\* C30: under a fair generator every call of randomize (pairing, batched
\* pairing, batched secp256k1) eventually returns.
C30_RandomizeReturns ==
  <>(call.fn = "randomize" /\ call.stage = "returned")

====
